---------------------------- MODULE Spec2Model ----------------------------
(***************************************************************************)
(* Model of the Embedded Trace FIFO controller (src/src/etf.rs) and of the *)
(* capture sequence that drives it (src/src/main.rs, lines 139-174).       *)
(*                                                                         *)
(* TLC's integers are 32-bit signed, so a u32 register value is a record   *)
(* [hi, lo] of two 16-bit halves; every operation on words below works on  *)
(* the halves and keeps the 32-bit width.                                  *)
(***************************************************************************)
EXTENDS Integers, Sequences, FiniteSets, TLC

VARIABLES
  mem,        \* the component's registers, by offset (all but RRD)
  fifo,       \* words held in the trace RAM, oldest first
  hw,         \* capture pipeline: "stopped" | "capturing" | "flushing"
  gen,        \* the next word the trace sources will produce
  emitted,    \* number of words produced so far
  faulty,     \* TRUE: hardware that keeps producing words after it stopped
  pc,         \* main: the statement of the capture sequence being executed
  fifo_size,  \* main: let fifo_size (bytes)
  etf_trace,  \* main: the Cursor<Vec<u8>>, [buf, pos]
  outcome,    \* main: "running" | "ok" | "transport_error" | "panic"
  demux,      \* main: the demultiplex loop, [id, itm_trace] and its ghosts
  call,       \* the Controller operation called, [op, arg, step]; step 0: returned
  loc,        \* the operation's local register object (mode_reg / ffcr)
  ret,        \* the result the last operation returned, [st, val]
  ops,        \* ghost: transport operations issued by the current operation
  hist,       \* ghost: the writes of the run, each with what was read before it
  seen,       \* ghost: results of the reading operations since the last write
  rx          \* ghost: non-sentinel words the read-data register has returned

hwvars   == <<mem, fifo, hw, gen, emitted, faulty>>
mainvars == <<pc, fifo_size, etf_trace, outcome, demux>>
opvars   == <<call, loc, ret>>
ghosts   == <<ops, hist, seen, rx>>
vars     == <<mem, fifo, hw, gen, emitted, faulty, pc, fifo_size, etf_trace,
              outcome, demux, call, loc, ret, ops, hist, seen, rx>>

---------------------------------------------------------------------------
(* Bounds of the model. *)

\* Words the trace sources produce in one run.
MaxWords == 35

---------------------------------------------------------------------------
(* Program constants. *)

REGISTER_OFFSET_RSZ     == 4
REGISTER_OFFSET_RRD     == 16
REGISTER_OFFSET_CTL     == 32
REGISTER_OFFSET_CBUFLVL == 48
ADDRESS_FFCR            == 772
ADDRESS_STS             == 12
ADDRESS_MODE            == 40

MODE_CIRCULAR == 0
MODE_SOFTWARE == 1
MODE_HARDWARE == 2

FFCR_STOPONFL == 12
FFCR_FLUSHMAN == 6
STS_EMPTY     == 4
STS_READY     == 2
STS_TRIGD     == 1
STS_FULL      == 0
MODE_FIELD_MSB == 1
MODE_FIELD_LSB == 0

\* core::mem::size_of::<u32>()
SIZE_OF_U32 == 4
\* vec![0; fifo_size as usize + 128]
DRAIN_MARGIN == 128

Half == 65536

---------------------------------------------------------------------------
(* u32 values as two 16-bit halves. *)

W(h, l) == [hi |-> h, lo |-> l]

\* A small natural number as a u32.
U32(n) == W(n \div Half, n % Half)

\* The value of a u32 that is known to be below 2^31.
ToNat(w) == w.hi * Half + w.lo

\* 0xFFFF_FFFF, the match arm of read()
SENTINEL == W(65535, 65535)

Bit(w, i) == IF i < 16 THEN (w.lo \div (2 ^ i)) % 2
                       ELSE (w.hi \div (2 ^ (i - 16))) % 2

RECURSIVE SumBits(_, _, _)
\* Sum of f[i] * 2^(i - from) for i in from..to.
SumBits(f, from, to) ==
  IF from > to THEN 0
  ELSE f[from] + 2 * SumBits([i \in (from + 1)..to |-> f[i]], from + 1, to)

FromBits(f) ==
  W(SumBits([i \in 16..31 |-> f[i]], 16, 31),
    SumBits([i \in 0..15 |-> f[i]], 0, 15))

\* bitfield!: the getter of field msb..lsb (at most 16 bits wide).
BitRange(w, msb, lsb) ==
  SumBits([i \in lsb..msb |-> Bit(w, i)], lsb, msb)

\* bitfield!: the setter of field msb..lsb: the field's bits are replaced by
\* the low bits of value, every other bit of the word is kept.
SetBitRange(w, msb, lsb, value) ==
  FromBits([i \in 0..31 |->
              IF lsb <= i /\ i <= msb THEN (value \div (2 ^ (i - lsb))) % 2
                                      ELSE Bit(w, i)])

\* bitfield!: the setter of a single-bit field.
SetBit(w, i, b) == SetBitRange(w, i, i, IF b THEN 1 ELSE 0)

\* w * 4 in u32 arithmetic: the wrapped product and whether it overflowed.
MulU32(w, k) ==
  LET l == w.lo * k
      h == w.hi * k + (l \div Half)
  IN  [val |-> W(h % Half, l % Half), overflow |-> h >= Half]

\* u32::to_le_bytes
to_le_bytes(w) ==
  <<w.lo % 256, w.lo \div 256, w.hi % 256, w.hi \div 256>>

---------------------------------------------------------------------------
(* The hardware behind the registers, as the source documents it:          *)
(* software FIFO mode stalls the trace stream when the RAM is full, the    *)
(* read-data register returns the sentinel when the RAM holds no word,     *)
(* ready means capture has stopped and the pipelines have drained, the     *)
(* fill level reads zero while capture is disabled, and a flush with       *)
(* stop-on-flush set lets the pending words reach the RAM and then stops.  *)

Regs == {REGISTER_OFFSET_RSZ, ADDRESS_STS, REGISTER_OFFSET_CTL, ADDRESS_MODE,
         REGISTER_OFFSET_CBUFLVL, ADDRESS_FFCR}

\* The RAM holds as many words as the size register says.
RamFull(m, f) ==
  m[REGISTER_OFFSET_RSZ].hi = 0 /\ Len(f) >= m[REGISTER_OFFSET_RSZ].lo

\* The status and fill-level registers follow the RAM and the pipeline: the
\* full, ready and empty bits are set from them, the other status bits kept.
Refreshed(m, f, h) ==
  LET flag(i) == IF i = STS_FULL THEN RamFull(m, f)
                 ELSE IF i = STS_READY THEN h = "stopped"
                 ELSE f = <<>>
      s3 == FromBits([i \in 0..31 |->
                        IF i \in {STS_FULL, STS_READY, STS_EMPTY}
                        THEN (IF flag(i) THEN 1 ELSE 0)
                        ELSE Bit(m[ADDRESS_STS], i)])
      lv == IF Bit(m[REGISTER_OFFSET_CTL], 0) = 1 THEN U32(Len(f)) ELSE U32(0)
  IN  [m EXCEPT ![ADDRESS_STS] = s3, ![REGISTER_OFFSET_CBUFLVL] = lv]

\* The word after w in the trace stream; the sentinel is never a data word.
NextWord(w) ==
  IF w.lo < 65535 THEN (IF W(w.hi, w.lo + 1) = SENTINEL THEN W(0, 0)
                                                        ELSE W(w.hi, w.lo + 1))
  ELSE W((w.hi + 1) % Half, 0)

\* A word of the trace stream reaches the RAM.
PushWord ==
  /\ emitted < MaxWords
  /\ ~RamFull(mem, fifo)
  /\ fifo' = Append(fifo, gen)
  /\ gen' = NextWord(gen)
  /\ emitted' = emitted + 1
  /\ mem' = Refreshed(mem, fifo', hw)
  /\ UNCHANGED <<hw, faulty>>

\* Armed -> Full: the trace sources fill the RAM while capture is enabled.
HwCapture ==
  /\ hw = "capturing"
  /\ PushWord
  /\ UNCHANGED <<mainvars, opvars, ghosts>>

\* Stopping: words still in the pipeline reach the RAM as it is drained.
\* Faulty hardware keeps delivering words after it has reported ready.
HwPipeline ==
  /\ hw = "flushing" \/ (faulty /\ hw = "stopped")
  /\ PushWord
  /\ UNCHANGED <<mainvars, opvars, ghosts>>

\* The pipeline has drained: the flush is over (the manual-flush bit is a
\* pulse the hardware clears), capture has stopped and ready is set.
HwStop ==
  /\ hw = "flushing"
  /\ hw' = "stopped"
  /\ mem' = Refreshed([mem EXCEPT ![ADDRESS_FFCR] =
                                   SetBit(@, FFCR_FLUSHMAN, FALSE)], fifo, hw')
  /\ UNCHANGED <<fifo, gen, emitted, faulty, mainvars, opvars, ghosts>>

\* A flush that stops nothing is over: the hardware clears the pulse.
HwFlushDone ==
  /\ hw # "flushing"
  /\ Bit(mem[ADDRESS_FFCR], FFCR_FLUSHMAN) = 1
  /\ mem' = [mem EXCEPT ![ADDRESS_FFCR] = SetBit(@, FFCR_FLUSHMAN, FALSE)]
  /\ UNCHANGED <<fifo, hw, gen, emitted, faulty, mainvars, opvars, ghosts>>

Hardware == HwCapture \/ HwPipeline \/ HwStop \/ HwFlushDone

---------------------------------------------------------------------------
(* The transport: CoresightComponent::read_reg / write_reg.  A transport   *)
(* operation may fail; a failed operation has no effect on the hardware.   *)

\* What a read of the register at addr returns.
ReadValue(addr) ==
  IF addr = REGISTER_OFFSET_RRD
  THEN (IF fifo = <<>> THEN SENTINEL ELSE Head(fifo))
  ELSE mem[addr]

\* The pipeline state after a write of val to addr.
HwAfterWrite(addr, val) ==
  IF addr = REGISTER_OFFSET_CTL
  THEN (IF Bit(val, 0) = 1
        THEN (IF hw = "stopped" /\ Bit(mem[REGISTER_OFFSET_CTL], 0) = 0
              THEN "capturing" ELSE hw)
        ELSE (IF hw = "stopped" THEN "stopped" ELSE "flushing"))
  ELSE IF addr = ADDRESS_FFCR
            /\ Bit(val, FFCR_FLUSHMAN) = 1 /\ Bit(val, FFCR_STOPONFL) = 1
            /\ hw = "capturing"
  THEN "flushing"
  ELSE hw

Entry(kind, addr, val, ok) ==
  [op |-> call.op, kind |-> kind, addr |-> addr, val |-> val, ok |-> ok]

\* read_reg(addr): the registers, the RAM, ops and rx after the read.
TransportRead(addr, ok) ==
  LET v == ReadValue(addr)
      e == Entry("r", addr, v, ok)
  IN  /\ ops' = Append(ops, e)
      /\ IF ok /\ addr = REGISTER_OFFSET_RRD /\ fifo # <<>>
         THEN /\ fifo' = Tail(fifo)
              /\ rx' = Append(rx, v)
              /\ mem' = Refreshed(mem, fifo', hw)
         ELSE UNCHANGED <<fifo, rx, mem>>
      /\ UNCHANGED <<hw, gen, emitted, faulty>>

\* write_reg(addr, val): the registers, the pipeline and ops after it.
TransportWrite(addr, val, ok) ==
  LET e == Entry("w", addr, val, ok)
  IN  /\ ops' = Append(ops, e)
      /\ IF ok
         THEN /\ hw' = HwAfterWrite(addr, val)
              /\ mem' = Refreshed([mem EXCEPT ![addr] = val], fifo, hw')
         ELSE UNCHANGED <<hw, mem>>
      /\ UNCHANGED <<fifo, gen, emitted, faulty, rx>>

---------------------------------------------------------------------------
(* The Controller: impl EmbeddedTraceFifo.  An operation is called by       *)
(* setting call, runs one transport operation per step and returns in ret,  *)
(* setting call.step to 0.                                                  *)

Call(op, arg) == [op |-> op, arg |-> arg, step |-> 1]
NoCall == [op |-> "none", arg |-> "-", step |-> 0]

\* The value of a result: b holds a bool, w a u32, and some with w an
\* Option<u32>; a field the result's type does not have keeps its default.
Unit    == [b |-> FALSE, some |-> FALSE, w |-> U32(0)]
Bool(b) == [b |-> b, some |-> FALSE, w |-> U32(0)]
Word(w) == [b |-> FALSE, some |-> FALSE, w |-> w]
Some(w) == [b |-> FALSE, some |-> TRUE, w |-> w]
None    == [b |-> FALSE, some |-> FALSE, w |-> SENTINEL]

Ok(op, v)  == [op |-> op, st |-> "ok", val |-> v]
Err(op)    == [op |-> op, st |-> "err", val |-> Unit]
Panic(op)  == [op |-> op, st |-> "panic", val |-> Unit]
NoRet == [op |-> "none", st |-> "none", val |-> Unit]

\* A read() that takes a word for the sentinel by its low half alone.
OptionOf_LowHalf(value) == IF value.lo = 65535 THEN None ELSE Some(value)

\* The match of read(): the sentinel is None, any other value is Some(value).
OptionOf(value) == IF value = SENTINEL THEN None ELSE Some(value)

\* What the ghosts keep of a result: a poll is kept by its outcome, a data
\* word as "data" (rx holds the words themselves).
Observed(r) ==
  <<r.op,
    IF r.st # "ok" THEN r.st
    ELSE IF r.op = "read" THEN (IF r.val.some THEN "data" ELSE "none")
    ELSE IF r.op \in {"full", "empty", "ready", "triggered"}
         THEN (IF r.val.b THEN "true" ELSE "false")
    ELSE "value">>

\* The history entry of a write: the operation, the register, the word, and
\* the results of the reading operations since the previous write.
Written(op, addr, val, ok) ==
  [op |-> op, addr |-> addr, val |-> val, ok |-> ok, after |-> seen]

\* enum Mode, #[repr(u8)]: mode as _
ModeAsU8(mode) ==
  CASE mode = "Circular" -> MODE_CIRCULAR
    [] mode = "Software" -> MODE_SOFTWARE
    [] mode = "Hardware" -> MODE_HARDWARE

\* An empty() that returns ftempty (bit 3), the neighbouring flag.
StatusEmpty_Ftempty(s) == Bit(s, 3) = 1

\* The Status getters.
StatusFull(s)  == Bit(s, STS_FULL) = 1
StatusEmpty(s) == Bit(s, STS_EMPTY) = 1
StatusReady(s) == Bit(s, STS_READY) = 1
StatusTrigd(s) == Bit(s, STS_TRIGD) = 1

\* words * size_of::<u32>() as u32: a build with overflow checks panics on
\* overflow, a build without them wraps.
InBytes(op, words) ==
  LET p == MulU32(words, SIZE_OF_U32)
  IN  IF p.overflow THEN {Ok(op, Word(p.val)), Panic(op)}
      ELSE {Ok(op, Word(p.val))}

\* An operation that is one read_reg / load and a decoding of its value:
\* results is what the operation returns for the value the read returns.
ReadOp(op, addr, results) ==
  /\ call.op = op /\ call.step = 1
  /\ \E ok \in BOOLEAN :
       /\ TransportRead(addr, ok)
       /\ ret' \in (IF ok THEN results ELSE {Err(op)})
  /\ seen' = seen \cup {Observed(ret')}
  /\ call' = [call EXCEPT !.step = 0]
  /\ UNCHANGED hist
  /\ UNCHANGED <<loc, mainvars>>

\* An operation that is one write_reg.
WriteOp(op, addr, val) ==
  /\ call.op = op /\ call.step = 1
  /\ \E ok \in BOOLEAN :
       /\ TransportWrite(addr, val, ok)
       /\ ret' = IF ok THEN Ok(op, Unit) ELSE Err(op)
       /\ hist' = Append(hist, Written(op, addr, val, ok))
  /\ seen' = {}
  /\ call' = [call EXCEPT !.step = 0]
  /\ UNCHANGED <<loc, mainvars>>

\* A load without the ?: the operation goes on to its store after an Err.
LoadStep_Unchecked(op, addr) ==
  /\ call.op = op /\ call.step = 1
  /\ \E ok \in BOOLEAN :
       /\ TransportRead(addr, ok)
       /\ loc' = IF ok THEN ReadValue(addr) ELSE U32(0)
  /\ call' = [call EXCEPT !.step = 2]
  /\ UNCHANGED <<ret, seen, hist, mainvars>>

\* The load of a read-modify-write operation: let mut reg = R::load(..)?
LoadStep(op, addr) ==
  /\ call.op = op /\ call.step = 1
  /\ \E ok \in BOOLEAN :
       /\ TransportRead(addr, ok)
       /\ IF ok
          THEN /\ loc' = ReadValue(addr)
               /\ call' = [call EXCEPT !.step = 2]
               /\ UNCHANGED <<ret, seen>>
          ELSE /\ ret' = Err(op)
               /\ seen' = seen \cup {Observed(ret')}
               /\ call' = [call EXCEPT !.step = 0]
               /\ UNCHANGED loc
  /\ UNCHANGED <<hist, mainvars>>

\* The store of a read-modify-write operation: reg.store(..)?; Ok(())
StoreStep(op, addr, val) ==
  /\ call.op = op /\ call.step = 2
  /\ \E ok \in BOOLEAN :
       /\ TransportWrite(addr, val, ok)
       /\ ret' = IF ok THEN Ok(op, Unit) ELSE Err(op)
       /\ hist' = Append(hist, Written(op, addr, val, ok))
  /\ seen' = {}
  /\ call' = [call EXCEPT !.step = 0]
  /\ UNCHANGED <<loc, mainvars>>

\* A set_mode that stores the encoding as the whole word.
set_mode_store_Whole ==
  StoreStep("set_mode", ADDRESS_MODE, U32(ModeAsU8(call.arg)))

set_mode_load  == LoadStep("set_mode", ADDRESS_MODE)
set_mode_store ==
  StoreStep("set_mode", ADDRESS_MODE,
            SetBitRange(loc, MODE_FIELD_MSB, MODE_FIELD_LSB,
                        ModeAsU8(call.arg)))
set_mode == set_mode_load \/ set_mode_store

\* An enable_capture that flips the enable bit of the register.
enable_capture_Toggle ==
  WriteOp("enable_capture", REGISTER_OFFSET_CTL,
          SetBit(mem[REGISTER_OFFSET_CTL], 0,
                 Bit(mem[REGISTER_OFFSET_CTL], 0) = 0))

enable_capture  == WriteOp("enable_capture", REGISTER_OFFSET_CTL, U32(1))
disable_capture == WriteOp("disable_capture", REGISTER_OFFSET_CTL, U32(0))

ReadResult(value) == {Ok("read", OptionOf(value))}
read == ReadOp("read", REGISTER_OFFSET_RRD,
               ReadResult(ReadValue(REGISTER_OFFSET_RRD)))

FullResult(s)  == {Ok("full", Bool(StatusFull(s)))}
EmptyResult(s) == {Ok("empty", Bool(StatusEmpty(s)))}
ReadyResult(s) == {Ok("ready", Bool(StatusReady(s)))}
TrigdResult(s) == {Ok("triggered", Bool(StatusTrigd(s)))}
full      == ReadOp("full", ADDRESS_STS,
                    FullResult(ReadValue(ADDRESS_STS)))
empty     == ReadOp("empty", ADDRESS_STS,
                    EmptyResult(ReadValue(ADDRESS_STS)))
ready     == ReadOp("ready", ADDRESS_STS,
                    ReadyResult(ReadValue(ADDRESS_STS)))
triggered == ReadOp("triggered", ADDRESS_STS,
                    TrigdResult(ReadValue(ADDRESS_STS)))

FillLevelResult(level) == InBytes("fill_level", level)
\* A fill_level that reads the size register.
fill_level_Size ==
  ReadOp("fill_level", REGISTER_OFFSET_RSZ,
         FillLevelResult(ReadValue(REGISTER_OFFSET_RSZ)))

fill_level == ReadOp("fill_level", REGISTER_OFFSET_CBUFLVL,
                     FillLevelResult(ReadValue(REGISTER_OFFSET_CBUFLVL)))

FifoSizeResult(size_words) == InBytes("fifo_size", size_words)
fifo_size_op == ReadOp("fifo_size", REGISTER_OFFSET_RSZ,
                       FifoSizeResult(ReadValue(REGISTER_OFFSET_RSZ)))

stop_on_flush_load  == LoadStep("stop_on_flush", ADDRESS_FFCR)
stop_on_flush_store ==
  StoreStep("stop_on_flush", ADDRESS_FFCR,
            SetBit(loc, FFCR_STOPONFL, call.arg = "true"))
stop_on_flush == stop_on_flush_load \/ stop_on_flush_store

\* A manual_flush that stores a word of its own making, not the one loaded.
manual_flush_store_Blind ==
  StoreStep("manual_flush", ADDRESS_FFCR, SetBit(U32(0), FFCR_FLUSHMAN, TRUE))

manual_flush_load  == LoadStep("manual_flush", ADDRESS_FFCR)
manual_flush_store ==
  StoreStep("manual_flush", ADDRESS_FFCR, SetBit(loc, FFCR_FLUSHMAN, TRUE))
manual_flush == manual_flush_load \/ manual_flush_store

\* The operations the capture sequence calls.
Controller ==
  \/ set_mode \/ enable_capture \/ disable_capture \/ read \/ full \/ empty
  \/ ready \/ fill_level \/ fifo_size_op \/ stop_on_flush \/ manual_flush

---------------------------------------------------------------------------
(* The capture sequence: main, from the construction of the Controller to  *)
(* the final disable_capture.                                              *)

\* The demultiplex loop before its first frame: let mut id = 0.into(), an
\* empty itm_trace; pairs, given, reported and chunks are ghosts: the
\* (tag, byte) pairs iterated, the tag each frame was created with, the tag
\* each frame reported, the 16 bytes each frame was created from; warned
\* holds the pairs a warning was logged for.
NoDemux ==
  [id |-> 0, itm_trace |-> <<>>, pairs |-> <<>>, given |-> <<>>,
   reported |-> <<>>, chunks |-> <<>>, warned |-> <<>>]

\* A capture sequence that flushes before it asks for the stop on flush.
Stmt_FlushFirst ==
  [ fifo_size       |-> Call("fifo_size", "-"),
    disable_capture |-> Call("disable_capture", "-"),
    wait_ready      |-> Call("ready", "-"),
    set_mode        |-> Call("set_mode", "Software"),
    enable_capture  |-> Call("enable_capture", "-"),
    wait_full       |-> Call("full", "-"),
    fill_level      |-> Call("fill_level", "-"),
    stop_on_flush   |-> Call("manual_flush", "-"),
    manual_flush    |-> Call("stop_on_flush", "true"),
    drain_read      |-> Call("read", "-"),
    drain_ready     |-> Call("ready", "-"),
    assert_empty    |-> Call("empty", "-"),
    disable_end     |-> Call("disable_capture", "-") ]

\* The Controller operation each statement calls.
Stmt ==
  [ fifo_size       |-> Call("fifo_size", "-"),
    disable_capture |-> Call("disable_capture", "-"),
    wait_ready      |-> Call("ready", "-"),
    set_mode        |-> Call("set_mode", "Software"),
    enable_capture  |-> Call("enable_capture", "-"),
    wait_full       |-> Call("full", "-"),
    fill_level      |-> Call("fill_level", "-"),
    stop_on_flush   |-> Call("stop_on_flush", "true"),
    manual_flush    |-> Call("manual_flush", "-"),
    drain_read      |-> Call("read", "-"),
    drain_ready     |-> Call("ready", "-"),
    assert_empty    |-> Call("empty", "-"),
    disable_end     |-> Call("disable_capture", "-") ]

Zeros(n) == [i \in 1..n |-> 0]

\* A cursor over a slice: the buffer never grows, bytes past its end are lost.
WriteAll_Slice(c, bytes) ==
  [buf |-> [i \in 1..Len(c.buf) |->
              IF c.pos < i /\ i <= c.pos + Len(bytes) THEN bytes[i - c.pos]
                                                       ELSE c.buf[i]],
   pos |-> IF c.pos + Len(bytes) <= Len(c.buf) THEN c.pos + Len(bytes)
                                               ELSE Len(c.buf)]

\* Cursor<Vec<u8>>::write_all: the bytes overwrite the vector from pos on,
\* the vector grows when they reach past its end, and pos advances.
WriteAll(c, bytes) ==
  LET n    == Len(bytes)
      old  == IF Len(c.buf) < c.pos THEN c.buf \o Zeros(c.pos - Len(c.buf))
                                    ELSE c.buf
      last == IF Len(old) > c.pos + n THEN Len(old) ELSE c.pos + n
  IN  [buf |-> [i \in 1..last |->
                  IF c.pos < i /\ i <= c.pos + n THEN bytes[i - c.pos]
                                                 ELSE old[i]],
       pos |-> c.pos + n]

\* main is about to call the operation of its statement.
Invoke ==
  /\ pc \in DOMAIN Stmt
  /\ call.step = 0 /\ ret.st = "none"
  /\ call' = Stmt[pc]
  /\ ops' = <<>>
  /\ UNCHANGED <<hwvars, mainvars, loc, ret, hist, seen, rx>>

\* The operation of statement p has returned Ok.
Returned(p) == pc = p /\ call.step = 0 /\ ret.st = "ok"

\* main goes on with statement p.
Goto(p) ==
  /\ pc' = p
  /\ ret' = NoRet
  /\ call' = NoCall
  /\ UNCHANGED <<hwvars, loc, ghosts>>

\* The ? after every call: an Err ends main with that error (a panic in an
\* operation unwinds main).
Abort ==
  /\ pc \in DOMAIN Stmt
  /\ call.step = 0 /\ ret.st \in {"err", "panic"}
  /\ pc' = "failed"
  /\ outcome' = IF ret.st = "err" THEN "transport_error" ELSE "panic"
  /\ UNCHANGED <<hwvars, opvars, ghosts, fifo_size, etf_trace, demux>>

\* let fifo_size = etf.fifo_size()?;
MainFifoSize ==
  /\ Returned("fifo_size")
  /\ fifo_size' = ret.val.w
  /\ Goto("disable_capture")
  /\ UNCHANGED <<etf_trace, outcome, demux>>

\* etf.disable_capture()?;
MainDisable ==
  /\ Returned("disable_capture")
  /\ Goto("wait_ready")
  /\ UNCHANGED <<fifo_size, etf_trace, outcome, demux>>

\* A sequence that polls ready once and goes on whatever it said.
MainWaitReady_Once ==
  /\ pc = "wait_ready" /\ call.step = 0 /\ ret.st = "ok"
  /\ pc' = "set_mode"
  /\ ret' = NoRet
  /\ call' = NoCall
  /\ UNCHANGED <<hwvars, loc, ghosts, fifo_size, etf_trace, outcome, demux>>

\* while !etf.ready()? {}
MainWaitReady ==
  /\ Returned("wait_ready")
  /\ Goto(IF ret.val.b THEN "set_mode" ELSE "wait_ready")
  /\ UNCHANGED <<fifo_size, etf_trace, outcome, demux>>

\* etf.set_mode(etf::Mode::Software)?;
MainSetMode ==
  /\ Returned("set_mode")
  /\ Goto("enable_capture")
  /\ UNCHANGED <<fifo_size, etf_trace, outcome, demux>>

\* etf.enable_capture()?;
MainEnable ==
  /\ Returned("enable_capture")
  /\ Goto("wait_full")
  /\ UNCHANGED <<fifo_size, etf_trace, outcome, demux>>

\* A sequence that polls full once and stops the capture whatever it said.
MainWaitFull_Once ==
  /\ pc = "wait_full" /\ call.step = 0 /\ ret.st = "ok"
  /\ pc' = "stop_on_flush"
  /\ ret' = NoRet
  /\ call' = NoCall
  /\ UNCHANGED <<hwvars, loc, ghosts, fifo_size, etf_trace, outcome, demux>>

\* while !etf.full()? { ... }
MainWaitFull ==
  /\ Returned("wait_full")
  /\ Goto(IF ret.val.b THEN "stop_on_flush" ELSE "fill_level")
  /\ UNCHANGED <<fifo_size, etf_trace, outcome, demux>>

\* info!("ETB level: ...", etf.fill_level()?);
MainFillLevel ==
  /\ Returned("fill_level")
  /\ Goto("wait_full")
  /\ UNCHANGED <<fifo_size, etf_trace, outcome, demux>>

\* etf.stop_on_flush(true)?;
MainStopOnFlush ==
  /\ Returned("stop_on_flush")
  /\ Goto("manual_flush")
  /\ UNCHANGED <<fifo_size, etf_trace, outcome, demux>>

\* etf.manual_flush()?; let mut etf_trace = Cursor::new(vec![0; ...]);
MainManualFlush ==
  /\ Returned("manual_flush")
  /\ etf_trace' = [buf |-> Zeros(ToNat(fifo_size) + DRAIN_MARGIN), pos |-> 0]
  /\ Goto("drain_read")
  /\ UNCHANGED <<fifo_size, outcome, demux>>

\* A drain loop that gives up with an error of its own once the words
\* read no longer fit the buffer.
MainDrainRead_Bounded ==
  /\ pc = "drain_read" /\ call.step = 0 /\ ret.st = "ok"
  /\ IF ret.val.some /\ etf_trace.pos + 4 > Len(etf_trace.buf)
     THEN /\ pc' = "failed"
          /\ outcome' = "protocol_error"
          /\ UNCHANGED <<etf_trace, call, ret>>
     ELSE /\ pc' = (IF ret.val.some THEN "drain_read" ELSE "drain_ready")
          /\ etf_trace' = (IF ret.val.some
                           THEN WriteAll(etf_trace, to_le_bytes(ret.val.w))
                           ELSE etf_trace)
          /\ ret' = NoRet
          /\ call' = NoCall
          /\ UNCHANGED outcome
  /\ UNCHANGED <<hwvars, loc, ghosts, fifo_size, demux>>

\* loop { if let Some(data) = etf.read()? { etf_trace.write_all(..)?; } ...
MainDrainRead ==
  /\ Returned("drain_read")
  /\ IF ret.val.some
     THEN /\ etf_trace' = WriteAll(etf_trace, to_le_bytes(ret.val.w))
          /\ Goto("drain_read")
     ELSE /\ UNCHANGED etf_trace
          /\ Goto("drain_ready")
  /\ UNCHANGED <<fifo_size, outcome, demux>>

\* ... else if etf.ready()? { break; } }
MainDrainReady ==
  /\ Returned("drain_ready")
  /\ Goto(IF ret.val.b THEN "assert_empty" ELSE "drain_read")
  /\ UNCHANGED <<fifo_size, etf_trace, outcome, demux>>

\* assert!(etf.empty()?);
MainAssertEmpty ==
  /\ Returned("assert_empty")
  /\ IF ret.val.b
     THEN /\ Goto("disable_end")
          /\ UNCHANGED outcome
     ELSE /\ pc' = "panicked"
          /\ outcome' = "panic"
          /\ UNCHANGED <<hwvars, opvars, ghosts>>
  /\ UNCHANGED <<fifo_size, etf_trace, demux>>

\* etf.disable_capture()?;
MainDisableEnd ==
  /\ Returned("disable_end")
  /\ Goto("done")
  /\ outcome' = "ok"
  /\ UNCHANGED <<fifo_size, etf_trace, demux>>

Main ==
  \/ Invoke \/ Abort \/ MainFifoSize \/ MainDisable \/ MainWaitReady
  \/ MainSetMode \/ MainEnable \/ MainWaitFull \/ MainFillLevel
  \/ MainStopOnFlush \/ MainManualFlush \/ MainDrainRead \/ MainDrainReady
  \/ MainAssertEmpty \/ MainDisableEnd

---------------------------------------------------------------------------
(* The capture sequence against the hardware. *)

\* The registers and the pipeline when the tool starts: size (words), Mode,
\* Flush/Format Control, Control bit and pipeline state (disabled; capturing;
\* enabled but stopped by an earlier flush).
\* and the first word of the trace stream (0x04030201 or 0xFFFFFFFD).
InitDevices ==
  { <<U32(1), U32(MODE_HARDWARE), U32(0),    0, "stopped",   W(1027, 513)>>,
    <<U32(1), W(43981, 61187),    U32(4099), 1, "capturing", W(65535, 65533)>>,
    <<U32(2), U32(MODE_CIRCULAR), U32(3),    1, "stopped",   W(65535, 65533)>>,
    <<U32(2), W(43981, 61187),    U32(4163), 1, "capturing", W(1027, 513)>> }

Init ==
  /\ \E d \in InitDevices :
       /\ hw = d[5]
       /\ mem = Refreshed([a \in Regs |->
                   IF a = REGISTER_OFFSET_RSZ THEN d[1]
                   ELSE IF a = ADDRESS_MODE THEN d[2]
                   ELSE IF a = ADDRESS_FFCR THEN d[3]
                   ELSE IF a = REGISTER_OFFSET_CTL THEN U32(d[4])
                   ELSE U32(0)], <<>>, d[5])
       /\ gen = d[6]
  /\ fifo = <<>>
  /\ emitted = 0
  /\ faulty \in BOOLEAN
  /\ pc = "fifo_size"
  /\ fifo_size = U32(0)
  /\ etf_trace = [buf |-> <<>>, pos |-> 0]
  /\ demux = NoDemux
  /\ outcome = "running"
  /\ call = NoCall
  /\ loc = U32(0)
  /\ ret = NoRet
  /\ ops = <<>>
  /\ hist = <<>>
  /\ seen = {}
  /\ rx = <<>>

Next == Main \/ Controller \/ Hardware

Spec == Init /\ [][Next]_vars

\* The capture sequence on hardware that delivers no word after it has
\* stopped, with progress: main and the Controller go on while they can, a
\* capturing ETF takes the next word while it has room, a flushing pipeline
\* stops.  Each of these steps changes the variables its fairness names.
LiveInit == Init /\ ~faulty

LiveSpec ==
  /\ LiveInit
  /\ [][Next]_vars
  /\ WF_<<pc, call>>(Main \/ Controller)
  /\ WF_fifo(HwCapture)
  /\ WF_hw(HwStop)

---------------------------------------------------------------------------
(* The demultiplex loop of main, from etf_trace.rewind() on.  etf::Frame is *)
(* the frame parser of the Frame Demultiplexer: 16-byte frames of the       *)
(* funnel, the low-order bit of each even byte telling a tag change from a  *)
(* data byte, the last byte holding the bits the even bytes gave up.        *)

ITM_ATID == 13
FRAME_BYTES == 16

\* The frame's bytes 0..14 from byte i on: id is the active tag, pending the
\* tag that becomes active after the next data byte (-1: none), acc the
\* pairs so far.  The result is the pairs and the tag the frame reports.
RECURSIVE FrameScan(_, _, _, _, _)
FrameScan(buf, i, id, pending, acc) ==
  IF i > FRAME_BYTES - 2
  THEN [pairs |-> acc, id |-> IF pending >= 0 THEN pending ELSE id]
  ELSE LET b   == buf[i + 1]
           aux == (buf[FRAME_BYTES] \div (2 ^ (i \div 2))) % 2
       IN  IF i % 2 = 0
           THEN (IF b % 2 = 1
                 THEN (IF aux = 1
                       THEN FrameScan(buf, i + 1, id, b \div 2, acc)
                       ELSE FrameScan(buf, i + 1, b \div 2, -1, acc))
                 ELSE FrameScan(buf, i + 1, id, -1,
                                Append(acc, <<id, (b - (b % 2)) + aux>>)))
           ELSE FrameScan(buf, i + 1, IF pending >= 0 THEN pending ELSE id,
                          -1, Append(acc, <<id, b>>))

\* Frame::new(&buf, id) iterated to its end, and frame.id() after it.
Frame(buf, id) == FrameScan(buf, 0, id, -1, <<>>)

\* A loop that starts every frame without a tag.
CarriedId_Reset(frame) == 0

\* id = frame.id();
CarriedId(frame) == frame.id

\* A match that keeps the bytes of every tag but 0.
Route_KeepAll(tag) == IF tag = 0 THEN "drop" ELSE "write"

\* match id.into() { 13 => write, 0 => (), id => warn!(..) }
Route(tag) ==
  IF tag = ITM_ATID THEN "write" ELSE IF tag = 0 THEN "drop" ELSE "warn"

\* for (id, data) in &mut frame { .. }: the pairs k.. of the frame.
RECURSIVE ForEachPair(_, _, _, _)
ForEachPair(pairs, k, last, d) ==
  IF k > last THEN d
  ELSE LET pr == pairs[k]
           d1 == [d EXCEPT !.pairs = Append(@, pr)]
       IN  ForEachPair(pairs, k + 1, last,
             CASE Route(pr[1]) = "write" ->
                    [d1 EXCEPT !.itm_trace = Append(@, pr[2])]
               [] Route(pr[1]) = "drop" -> d1
               [] OTHER -> [d1 EXCEPT !.warned = Append(@, pr)])

\* One turn of the loop: read_exact fills buf, the frame is created with id,
\* its pairs are routed, id = frame.id().  A write to itm_trace may fail
\* (fail: the pair whose write fails, 0: none); the ? ends main.
DemuxFrame ==
  /\ pc = "demux"
  /\ etf_trace.pos + FRAME_BYTES <= Len(etf_trace.buf)
  /\ LET buf   == SubSeq(etf_trace.buf, etf_trace.pos + 1,
                         etf_trace.pos + FRAME_BYTES)
         frame == Frame(buf, demux.id)
         d0    == [demux EXCEPT !.given = Append(@, demux.id),
                                !.chunks = Append(@, buf)]
     IN  \E fail \in 0..Len(frame.pairs) :
           IF fail = 0
           THEN /\ demux' = [ForEachPair(frame.pairs, 1, Len(frame.pairs), d0)
                               EXCEPT !.id = CarriedId(frame),
                                      !.reported = Append(@, frame.id)]
                /\ UNCHANGED <<pc, outcome>>
           ELSE /\ Route(frame.pairs[fail][1]) = "write"
                /\ demux' = [ForEachPair(frame.pairs, 1, fail - 1, d0)
                               EXCEPT !.pairs = Append(@, frame.pairs[fail])]
                /\ pc' = "failed"
                /\ outcome' = "io_error"
  /\ etf_trace' = [etf_trace EXCEPT !.pos = @ + FRAME_BYTES]
  /\ UNCHANGED <<hwvars, opvars, ghosts, fifo_size>>

\* Err(e) if e.kind() == UnexpectedEof => break: fewer than 16 bytes are
\* left; where read_exact leaves the cursor then is not specified.
DemuxEof ==
  /\ pc = "demux"
  /\ etf_trace.pos + FRAME_BYTES > Len(etf_trace.buf)
  /\ pc' = "decoded"
  /\ \E p \in {etf_trace.pos, Len(etf_trace.buf)} :
       etf_trace' = [etf_trace EXCEPT !.pos = p]
  /\ UNCHANGED <<hwvars, opvars, ghosts, fifo_size, outcome, demux>>

\* Frames a drained buffer may hold.  FrameTags: tag 13 at once, data, tag 5
\* after the next byte, data.  FrameZeros: data bytes only.  FrameLate: tag
\* 0, data, tag 13 in the last even byte.  FrameData: data bytes whose low
\* bits are all in the last byte.
FrameTags  == <<27, 170, 16, 187, 11, 1, 0, 2, 0, 0, 0, 0, 0, 0, 0, 6>>
FrameZeros == <<0, 0, 0, 0, 0, 0, 0, 0, 0, 0, 0, 0, 0, 0, 0, 0>>
FrameLate  == <<1, 7, 8, 9, 0, 0, 0, 0, 0, 0, 0, 0, 0, 255, 27, 0>>
FrameData  == <<2, 3, 4, 5, 6, 7, 8, 9, 10, 11, 12, 13, 14, 15, 254, 255>>
SampleFrames == {FrameTags, FrameZeros, FrameLate, FrameData}

MaxFrames == 3

RECURSIVE FrameSeqs(_)
FrameSeqs(n) ==
  IF n = 0 THEN {<<>>}
  ELSE FrameSeqs(n - 1)
         \cup {b \o f : b \in FrameSeqs(n - 1), f \in SampleFrames}

\* The buffer is whole words: frames, then nothing or one more word.
DemuxBuffers ==
  {b \o t : b \in FrameSeqs(MaxFrames), t \in {<<>>, <<1, 2, 3, 4>>}}

DemuxInit ==
  /\ mem = [r \in Regs |-> U32(0)]
  /\ fifo = <<>>
  /\ hw = "stopped"
  /\ gen = W(1027, 513)
  /\ emitted = 0
  /\ faulty = FALSE
  /\ pc = "demux"
  /\ fifo_size = U32(0)
  /\ \E b \in DemuxBuffers : etf_trace = [buf |-> b, pos |-> 0]
  /\ outcome = "running"
  /\ demux = NoDemux
  /\ call = NoCall
  /\ loc = U32(0)
  /\ ret = NoRet
  /\ ops = <<>>
  /\ hist = <<>>
  /\ seen = {}
  /\ rx = <<>>

DemuxNext == DemuxFrame \/ DemuxEof

DemuxSpec == DemuxInit /\ [][DemuxNext]_vars

---------------------------------------------------------------------------
(* The Controller on its own: any operation, with any argument, against    *)
(* registers that hold any of a set of sample words and may change at any  *)
(* time of a call, also between the load and the store of one operation.   *)

\* 0b00101 (full + ready), all five flags, one flag each, every other bit.
StatusSamples ==
  {U32(0), U32(5), U32(31), U32(1), U32(2), U32(4), U32(8), U32(16),
   W(65535, 65504), W(65535, 65535)}
\* Nothing, bit 12, bit 6, both, every bit but 12 and 6, every bit.
FfcrSamples ==
  {U32(0), U32(4096), U32(64), U32(4160), U32(3), W(65535, 61375),
   W(65535, 65535)}
ModeSamples ==
  {U32(0), U32(1), U32(2), U32(3), W(65535, 65532), W(43981, 61187),
   W(65535, 65535)}
\* Word counts: 0, 1, 4096, 0x3FFFFFFF, 0x40000000, 0x80000001, 0xFFFFFFFF.
CountSamples ==
  {U32(0), U32(1), U32(4096), W(16383, 65535), W(16384, 0), W(32768, 1),
   W(65535, 65535)}
ControlSamples == {U32(0), U32(1)}
FifoSamples ==
  {<<>>, <<W(0, 1), W(0, 2)>>, <<W(0, 0)>>, <<W(65535, 65534)>>,
   <<W(65535, 0)>>, <<W(0, 65535)>>}

SamplesOf(a) ==
  CASE a = ADDRESS_STS -> StatusSamples
    [] a = ADDRESS_FFCR -> FfcrSamples
    [] a = ADDRESS_MODE -> ModeSamples
    [] a = REGISTER_OFFSET_CTL -> ControlSamples
    [] OTHER -> CountSamples

\* The operations of impl EmbeddedTraceFifo with their arguments.
OpCalls ==
  {Call(op, "-") : op \in {"enable_capture", "disable_capture", "read",
                            "full", "empty", "ready", "triggered",
                            "fill_level", "fifo_size", "manual_flush"}}
  \cup {Call("set_mode", m) : m \in {"Circular", "Software", "Hardware"}}
  \cup {Call("stop_on_flush", b) : b \in {"true", "false"}}

\* A caller calls an operation.
HarnessCall ==
  /\ pc = "harness"
  /\ call.step = 0
  /\ call' \in OpCalls
  /\ ret' = NoRet
  /\ loc' = U32(0)
  /\ ops' = <<>> /\ hist' = <<>> /\ seen' = {} /\ rx' = <<>>
  /\ UNCHANGED <<hwvars, mainvars>>

\* A register changes under the Controller.
PokeRegister ==
  /\ pc = "harness"
  /\ call.step # 0
  /\ \E a \in Regs, c \in ControlSamples :
       \E v \in SamplesOf(a) :
         mem' = [r \in Regs |-> IF r = a THEN v
                                ELSE IF r = REGISTER_OFFSET_CTL THEN c
                                ELSE U32(0)]
  /\ fifo' = <<>>
  /\ hw' = "stopped"
  /\ UNCHANGED <<gen, emitted, faulty, mainvars, opvars, ghosts>>

\* The trace RAM changes under the Controller.
PokeFifo ==
  /\ pc = "harness"
  /\ call.step # 0
  /\ fifo' \in FifoSamples
  /\ mem' = [r \in Regs |-> U32(0)]
  /\ hw' = "stopped"
  /\ UNCHANGED <<gen, emitted, faulty, mainvars, opvars, ghosts>>

OpInit ==
  /\ mem = [r \in Regs |-> U32(0)]
  /\ fifo = <<>>
  /\ hw = "stopped"
  /\ gen = W(1027, 513)
  /\ emitted = 0
  /\ faulty = FALSE
  /\ pc = "harness"
  /\ fifo_size = U32(0)
  /\ etf_trace = [buf |-> <<>>, pos |-> 0]
  /\ demux = NoDemux
  /\ outcome = "running"
  /\ call = NoCall
  /\ loc = U32(0)
  /\ ret = NoRet
  /\ ops = <<>>
  /\ hist = <<>>
  /\ seen = {}
  /\ rx = <<>>

OpNext == HarnessCall \/ PokeRegister \/ PokeFifo \/ Controller \/ triggered

OpSpec == OpInit /\ [][OpNext]_vars

---------------------------------------------------------------------------
(* enable_capture and disable_capture called one after the other, up to   *)
(* MaxCalls times, on a device whose Control register holds any of a few    *)
(* words at first; hist keeps the writes of all the calls.                  *)

MaxCalls == 3

\* 0, 1, a word with bit 0 clear and other bits set, every bit set.
ControlPrior == {U32(0), U32(1), W(43981, 61186), W(65535, 65535)}

PairCall ==
  /\ pc = "pair"
  /\ call.step = 0
  /\ Len(hist) < MaxCalls
  /\ call' \in {Call("enable_capture", "-"), Call("disable_capture", "-")}
  /\ ret' = NoRet
  /\ ops' = <<>>
  /\ UNCHANGED <<hwvars, mainvars, loc, hist, seen, rx>>

PairInit ==
  /\ \E c \in ControlPrior :
       mem = [r \in Regs |-> IF r = REGISTER_OFFSET_CTL THEN c
                             ELSE IF r = REGISTER_OFFSET_RSZ THEN U32(2)
                             ELSE U32(0)]
  /\ fifo = <<>>
  /\ hw = "stopped"
  /\ gen = W(1027, 513)
  /\ emitted = 0
  /\ faulty = FALSE
  /\ pc = "pair"
  /\ fifo_size = U32(0)
  /\ etf_trace = [buf |-> <<>>, pos |-> 0]
  /\ demux = NoDemux
  /\ outcome = "running"
  /\ call = NoCall
  /\ loc = U32(0)
  /\ ret = NoRet
  /\ ops = <<>>
  /\ hist = <<>>
  /\ seen = {}
  /\ rx = <<>>

PairNext ==
  \/ PairCall \/ enable_capture \/ disable_capture
  \/ HwCapture \/ HwPipeline \/ HwStop

PairSpec == PairInit /\ [][PairNext]_vars

---------------------------------------------------------------------------
(* Properties of the capture sequence. *)

DrainPcs == {"drain_read", "drain_ready"}
AfterDrainPcs == {"assert_empty", "disable_end", "done", "panicked"}

\* Bytes the trace buffer is created with.
BufferBytes == ToNat(fifo_size) + DRAIN_MARGIN

\* Words the drain loop has stored: every word the read-data register has
\* returned, but the one read() has just returned and the loop has not yet
\* written.
Stored ==
  IF pc = "drain_read" /\ call.step = 0 /\ ret.st = "ok" /\ ret.val.some
  THEN SubSeq(rx, 1, Len(rx) - 1)
  ELSE rx

OpsOf(h) == [i \in 1..Len(h) |-> h[i].op]

IsPrefix(a, b) == Len(a) <= Len(b) /\ \A i \in 1..Len(a) : a[i] = b[i]

\* C1 (drain termination law): with hardware that delivers words only until
\* its pipeline has stopped, whenever the drain loop has terminated a further
\* read of the read-data register returns the sentinel.
C1_DrainTerminationLaw ==
  (~faulty /\ pc = "assert_empty")
    => ReadValue(REGISTER_OFFSET_RRD) = SENTINEL

\* C2 (stop sequence ordering): the write of manual_flush directly follows a
\* completed stop_on_flush store that set bit 12, the load of manual_flush
\* sees bit 12 set, the word manual_flush stores has bits 12 and 6 set, and
\* no stop_on_flush store follows a manual_flush write.
C2_StopBeforeFlush ==
  /\ \A i \in 1..Len(hist) :
       hist[i].op = "manual_flush" =>
         /\ i > 1
         /\ hist[i - 1].op = "stop_on_flush"
         /\ hist[i - 1].ok
         /\ hist[i - 1].addr = 772
         /\ (hist[i - 1].val.lo \div 4096) % 2 = 1
         /\ hist[i].addr = 772
         /\ (hist[i].val.lo \div 4096) % 2 = 1
         /\ (hist[i].val.lo \div 64) % 2 = 1
         /\ \A j \in 1..Len(hist) : j > i => hist[j].op # "stop_on_flush"
  /\ (call.op = "manual_flush" /\ call.step = 2) =>
         /\ Len(ops) = 1 /\ ops[1].kind = "r" /\ ops[1].addr = 772
         /\ (ops[1].val.lo \div 4096) % 2 = 1
         /\ loc = ops[1].val

C2_FlushIssued ==
  \E i \in 1..Len(hist) : hist[i].op = "manual_flush" /\ hist[i].ok

\* C3 (capture lifecycle ordering): the writes of a run are, in this order
\* and once each, disable, Mode store, enable, the two Flush/Format Control
\* stores, disable, with no write after a failed one; the Flush/Format
\* Control stores come after a full() that returned true, no read of the
\* read-data register is issued before the manual-flush write, and the final
\* disable comes after a sentinel read and a ready observation.
C3_Lifecycle ==
  /\ IsPrefix(OpsOf(hist),
              <<"disable_capture", "set_mode", "enable_capture",
                "stop_on_flush", "manual_flush", "disable_capture">>)
  /\ \A i \in 1..Len(hist) :
       /\ i < Len(hist) => hist[i].ok
       /\ hist[i].op = "enable_capture" =>
            hist[i].addr = 32 /\ hist[i].val = W(0, 1)
            /\ hist[i - 1].op = "set_mode" /\ hist[i - 1].addr = 40
       /\ hist[i].op = "stop_on_flush" => <<"full", "true">> \in hist[i].after
       /\ hist[i].op # "disable_capture" =>
            \A r \in hist[i].after : r[1] # "read"
       /\ i = 1 => \A r \in hist[i].after : r[1] # "read"
       /\ (hist[i].op = "disable_capture" /\ i > 1) =>
            /\ hist[i].addr = 32 /\ hist[i].val = W(0, 0)
            /\ <<"read", "none">> \in hist[i].after
            /\ <<"ready", "true">> \in hist[i].after
  /\ (\E r \in seen : r[1] = "read") =>
       (Len(hist) >= 5 /\ hist[5].op = "manual_flush")

C3_RunComplete == pc = "done" /\ Len(hist) = 6 /\ hist[6].ok

\* C4 (as claimed): when hardware that has reported ready keeps returning
\* data words, the drain loop ends in a protocol error after a bounded
\* number of iterations; the bound tried is the number of words the trace
\* buffer was created for.
C4_BoundedDrain ==
  (faulty /\ StatusReady(mem[ADDRESS_STS])
     /\ pc \in DrainPcs
     /\ <<"read", "none">> \notin seen
     /\ 4 * Len(rx) > BufferBytes)
    => outcome = "protocol_error"

\* C4 (amended): the drain loop has no iteration bound: a data word keeps
\* the loop reading, and the loop is left only by a ready observation that
\* follows a sentinel read, or by a transport error; main never ends in any
\* other error.
C4_DrainExits ==
  /\ [][(pc \in DrainPcs /\ pc' \notin DrainPcs) =>
          \/ /\ pc' = "failed" /\ outcome' = "transport_error"
             /\ ret.st = "err"
          \/ /\ pc = "drain_ready" /\ pc' = "assert_empty"
             /\ ret.st = "ok" /\ ret.val.b
             /\ <<"read", "none">> \in seen]_vars
  /\ [][(pc = "drain_read" /\ pc' # pc /\ pc' # "failed") =>
          (ret.st = "ok" /\ ~ret.val.some)]_vars
  /\ [](outcome \in {"running", "ok", "transport_error", "panic"})

C4_StillDraining ==
  /\ faulty /\ StatusReady(mem[ADDRESS_STS])
  /\ pc \in DrainPcs /\ outcome = "running"
  /\ etf_trace.pos > BufferBytes

\* C5 (transport errors propagate at once): an operation issues no transport
\* operation after one that failed and returns Err exactly when its last
\* transport operation failed; a read-modify-write whose load failed issues
\* no store; and once an operation has returned Err, no operation is called
\* and no transport operation is issued any more: main ends with that error.
C5_ErrorsPropagate ==
  /\ [](/\ \A i \in 1..Len(ops) : i < Len(ops) => ops[i].ok
        /\ (call.step = 0 /\ ret.st # "none") =>
             /\ ops # <<>>
             /\ (ret.st = "err") = ~ops[Len(ops)].ok
        /\ (ret.st = "err" /\ ops[1].kind = "r" /\ ~ops[1].ok) =>
             /\ Len(ops) = 1
             /\ (hist # <<>> => hist[Len(hist)].ok)
        /\ (pc = "failed" /\ outcome = "transport_error") => ret.st = "err"
        /\ hist # <<>> =>
             (hist[Len(hist)].ok \/ ret.st = "err"))
  /\ [][ret.st = "err" =>
          /\ ops' = ops /\ hist' = hist /\ seen' = seen /\ rx' = rx
          /\ call' = call /\ ret' = ret
          /\ pc' = "failed"
          /\ outcome' = "transport_error"]_<<mainvars, opvars, ghosts>>

C5_LoadFailed ==
  /\ pc = "failed" /\ outcome = "transport_error"
  /\ ret.op = "set_mode" /\ Len(ops) = 1 /\ ~ops[1].ok

\* C6 (drained data is preserved): the trace buffer starts with the
\* little-endian bytes of the words the read-data register returned, in the
\* order they were read and each once, the cursor stands right after them,
\* and the rest of the buffer is what it was created with; the buffer grows
\* when the words need more than the bytes it was created with.
C6_DrainedInOrder ==
  LET n == Len(Stored)
      b == etf_trace.buf
  IN  /\ etf_trace.pos = 4 * n
      /\ Len(b) >= 4 * n
      /\ \A k \in 1..n :
           /\ b[4 * k - 3] + 256 * b[4 * k - 2] = Stored[k].lo
           /\ b[4 * k - 1] + 256 * b[4 * k] = Stored[k].hi
           /\ \A j \in 0..3 : b[4 * k - j] \in 0..255
           /\ Stored[k] # W(65535, 65535)
      /\ (pc \in DrainPcs \cup AfterDrainPcs) =>
           /\ Len(b) = (IF 4 * n > BufferBytes THEN 4 * n ELSE BufferBytes)
           /\ \A i \in (4 * n + 1)..Len(b) : b[i] = 0

C6_DrainedPastBuffer ==
  /\ pc = "assert_empty"
  /\ <<"read", "none">> \in seen
  /\ 4 * Len(rx) > BufferBytes

\* C16: on hardware that delivers words only until its pipeline has
\* stopped, the Status load of the assertion after the drain loop shows the
\* empty bit set.
C16_AssertNeverFails ==
  (~faulty /\ pc = "assert_empty" /\ call.op = "empty" /\ call.step = 0
     /\ ret.st = "ok")
    => ret.val.b

\* C17: the Mode store of set_mode comes right after a Control write of 0
\* that succeeded, with no other write between them, and after a ready()
\* issued since that write has returned true.
C17_ModeWrittenWhileStopped ==
  \A k \in 1..Len(hist) :
    hist[k].op = "set_mode" =>
      /\ hist[k].addr = 40
      /\ k > 1
      /\ hist[k - 1].addr = 32
      /\ hist[k - 1].val.hi = 0 /\ hist[k - 1].val.lo = 0
      /\ hist[k - 1].ok
      /\ <<"ready", "true">> \in hist[k].after
      /\ \A r \in hist[k].after : r[1] = "ready"

\* The Mode store has succeeded after ready() had returned false and then
\* true.
C17_ModeStoredAfterWait ==
  /\ Len(hist) >= 2
  /\ hist[2].op = "set_mode" /\ hist[2].ok
  /\ <<"ready", "false">> \in hist[2].after

\* C18: a run in which no transport operation fails, on hardware that
\* becomes ready after a disable, full after an enable and stops after the
\* flush, leaves the three polling loops and issues the final Control write
\* of 0.
C18_CaptureCompletes ==
  [](outcome # "transport_error") => <>(pc = "done" /\ Len(hist) = 6)

---------------------------------------------------------------------------
(* Properties of the Controller's operations, under OpSpec. *)

\* The operation op has returned Ok.
ReturnedOk(op) == call.op = op /\ call.step = 0 /\ ret.st = "ok"

\* C7: read returns None if and only if the word read from the read-data
\* register (offset 0x10) is 0xFFFFFFFF, and Some(w) with w unchanged for
\* every other word w; it reads that register once and nothing else.
C7_ReadOption ==
  ReturnedOk("read") =>
    /\ Len(ops) = 1
    /\ ops[1].kind = "r" /\ ops[1].addr = 16 /\ ops[1].ok
    /\ ret.val.some = ~(ops[1].val.hi = 65535 /\ ops[1].val.lo = 65535)
    /\ ret.val.some => /\ ret.val.w.hi = ops[1].val.hi
                       /\ ret.val.w.lo = ops[1].val.lo

\* read has returned Some(0xFFFFFFFE), the word next to the sentinel.
C7_ReadNearSentinel ==
  /\ ReturnedOk("read")
  /\ ops[1].val.hi = 65535 /\ ops[1].val.lo = 65534
  /\ ret.val.some

\* C8: stop_on_flush(b) and manual_flush load Flush/Format Control and store
\* the word they just loaded with bit 12 set to b (stop_on_flush) or bit 6
\* set to 1 (manual_flush) and every other bit as loaded; the loaded word is
\* the register's value at the time of this call's load, not an earlier one.
C8_FfcrReadModifyWrite ==
  /\ [](\A op \in {"stop_on_flush", "manual_flush"} :
          (call.op = op /\ Len(ops) = 2) =>
            /\ ops[1].kind = "r" /\ ops[1].addr = 772 /\ ops[1].ok
            /\ ops[2].kind = "w" /\ ops[2].addr = 772
            /\ \A i \in 0..31 :
                 Bit(ops[2].val, i) =
                   IF op = "stop_on_flush" /\ i = 12
                   THEN (IF call.arg = "true" THEN 1 ELSE 0)
                   ELSE IF op = "manual_flush" /\ i = 6 THEN 1
                   ELSE Bit(ops[1].val, i))
  /\ [][(call.op \in {"stop_on_flush", "manual_flush"}
           /\ call.step = 1 /\ call'.step = 2)
          => (ops = <<>> /\ Len(ops') = 1 /\ ops'[1].val = mem[772])]_vars

\* stop_on_flush(false) has loaded 0xFFFFFFFF and stored 0xFFFFEFFF.
C8_StopOnFlushCleared ==
  /\ ReturnedOk("stop_on_flush") /\ call.arg = "false"
  /\ Len(ops) = 2
  /\ ops[1].val.hi = 65535 /\ ops[1].val.lo = 65535
  /\ ops[2].val.hi = 65535 /\ ops[2].val.lo = 61439

\* Mode's encoding: Circular 00, Software 01, Hardware 10.
C9_Encoding(m) ==
  CASE m = "Circular" -> 0 [] m = "Software" -> 1 [] m = "Hardware" -> 2

\* C9: set_mode(m) loads the Mode register (offset 0x28) and stores the
\* loaded word with bits[1:0] set to the encoding of m and bits[31:2] as
\* loaded; the register then reads back with bits[1:0] equal to the
\* encoding; set_mode touches no other register, and the Control register
\* and the capture state are as they were.
C9_SetModeField ==
  /\ []((call.op = "set_mode" /\ Len(ops) = 2) =>
          /\ ops[1].kind = "r" /\ ops[1].addr = 40 /\ ops[1].ok
          /\ ops[2].kind = "w" /\ ops[2].addr = 40
          /\ Bit(ops[2].val, 0) + 2 * Bit(ops[2].val, 1)
               = C9_Encoding(call.arg)
          /\ \A i \in 2..31 : Bit(ops[2].val, i) = Bit(ops[1].val, i))
  /\ [](ReturnedOk("set_mode") =>
          /\ Len(ops) = 2
          /\ Bit(ReadValue(40), 0) + 2 * Bit(ReadValue(40), 1)
               = C9_Encoding(call.arg)
          /\ \A i \in 2..31 : Bit(ReadValue(40), i) = Bit(ops[1].val, i))
  /\ [][(call.op = "set_mode" /\ Len(ops') > Len(ops))
          => /\ ops'[Len(ops')].addr = 40
             /\ mem'[32] = mem[32]
             /\ hw' = hw]_vars

\* set_mode(Software) has loaded 0xABCDEF03 and stored 0xABCDEF01 with
\* capture enabled.
C9_SoftwareOverOnes ==
  /\ ReturnedOk("set_mode") /\ call.arg = "Software"
  /\ ops[1].val.hi = 43981 /\ ops[1].val.lo = 61187
  /\ ops[2].val.hi = 43981 /\ ops[2].val.lo = 61185
  /\ mem[32].lo = 1

\* The bit of the Status word each polling operation returns.
C10_BitOf(op) ==
  CASE op = "full" -> 0 [] op = "triggered" -> 1
    [] op = "ready" -> 2 [] op = "empty" -> 4

\* C10: for every Status word s, full() returns bit 0 of s, triggered()
\* bit 1, ready() bit 2 and empty() bit 4, whatever the other bits are; s is
\* the value the Status register (offset 0xC) has when the operation is
\* called, loaded by that call; s = 0b00000101 gives full and ready true,
\* empty and triggered false.
C10_StatusDecoding ==
  /\ [](\A op \in {"full", "triggered", "ready", "empty"} :
          ReturnedOk(op) =>
            /\ Len(ops) = 1
            /\ ops[1].kind = "r" /\ ops[1].addr = 12 /\ ops[1].ok
            /\ ret.val.b = (Bit(ops[1].val, C10_BitOf(op)) = 1)
            /\ (ops[1].val.hi = 0 /\ ops[1].val.lo = 5)
                 => ret.val.b = (op \in {"full", "ready"}))
  /\ [][\A op \in {"full", "triggered", "ready", "empty"} :
          (call.op = op /\ call.step = 1 /\ call'.step = 0 /\ ret'.st = "ok")
            => /\ ops'[1].val = mem[12]
               /\ ret'.val.b = (Bit(mem[12], C10_BitOf(op)) = 1)]_vars

\* empty() has returned false for the Status word 0b00000101.
C10_FullReadyNotEmpty ==
  /\ ReturnedOk("empty")
  /\ ops[1].val.hi = 0 /\ ops[1].val.lo = 5
  /\ ~ret.val.b

\* C11: fill_level() and fifo_size() return 4 times the word count read from
\* the register at offset 0x30 (fill level) or 0x04 (size), for every 32-bit
\* value of the register; 4096 words give 16384.
C11_BytesAreFourTimesWords ==
  \A op \in {"fill_level", "fifo_size"} :
    (call.op = op /\ call.step = 0 /\ Len(ops) = 1 /\ ops[1].ok) =>
      /\ ops[1].addr = (IF op = "fill_level" THEN 48 ELSE 4)
      /\ ret.st = "ok"
      /\ ret.val.w.lo = (4 * ops[1].val.lo) % 65536
      /\ ret.val.w.hi = 4 * ops[1].val.hi + (4 * ops[1].val.lo) \div 65536

---------------------------------------------------------------------------
(* Properties of consecutive enable / disable calls, under PairSpec. *)

\* C12: after enable_capture the Control register (offset 0x20) holds 1 and
\* after disable_capture 0, whatever it held before; a second call of the
\* same operation right after the first leaves the register as the first
\* call left it.
C12_EnableDisableIdempotent ==
  /\ [](\A op \in {"enable_capture", "disable_capture"} :
          ReturnedOk(op) =>
            /\ mem[32].hi = 0
            /\ mem[32].lo = (IF op = "enable_capture" THEN 1 ELSE 0))
  /\ [][(/\ hist # <<>>
         /\ hist[Len(hist)].ok
         /\ hist[Len(hist)].op = call.op
         /\ call.step = 1 /\ call'.step = 0 /\ ret'.st = "ok")
          => mem'[32] = mem[32]]_vars

\* enable_capture has returned Ok twice in a row.
C12_EnabledTwice ==
  /\ ReturnedOk("enable_capture")
  /\ Len(hist) = 2
  /\ hist[1].op = "enable_capture" /\ hist[1].ok
  /\ hist[2].op = "enable_capture" /\ hist[2].ok
  /\ mem[32].lo = 1

---------------------------------------------------------------------------
(* Properties of the demultiplex loop, under DemuxSpec. *)

\* The bytes of the pairs whose tag is in tags, in order.
RECURSIVE BytesOf(_, _)
BytesOf(pairs, tags) ==
  IF pairs = <<>> THEN <<>>
  ELSE (IF Head(pairs)[1] \in tags THEN <<Head(pairs)[2]>> ELSE <<>>)
         \o BytesOf(Tail(pairs), tags)

\* The pairs whose tag is not in tags, in order.
RECURSIVE PairsNotOf(_, _)
PairsNotOf(pairs, tags) ==
  IF pairs = <<>> THEN <<>>
  ELSE (IF Head(pairs)[1] \in tags THEN <<>> ELSE <<Head(pairs)>>)
         \o PairsNotOf(Tail(pairs), tags)

\* The pairs of the frames 1..n, each parsed with the tag it was given.
RECURSIVE PairsOfFrames(_)
PairsOfFrames(n) ==
  IF n = 0 THEN <<>>
  ELSE PairsOfFrames(n - 1) \o Frame(demux.chunks[n], demux.given[n]).pairs

\* The pairs the loop has dealt with: all but one whose write failed.
Routed ==
  IF outcome = "io_error" THEN SubSeq(demux.pairs, 1, Len(demux.pairs) - 1)
  ELSE demux.pairs

\* C13: the output is exactly the bytes of the pairs tagged 13, in order;
\* pairs tagged 0 are dropped silently, pairs of any other tag are dropped
\* with a warning; no tag ends the loop: it goes on with the next pair and
\* the next frame until the buffer has no whole frame left (only a failed
\* write of a byte tagged 13 ends it before).
C13_UnexpectedTagsIgnored ==
  /\ demux.itm_trace = BytesOf(Routed, {13})
  /\ demux.warned = PairsNotOf(Routed, {0, 13})
  /\ outcome \in {"running", "io_error"}
  /\ (pc = "failed") = (outcome = "io_error")
  /\ outcome = "io_error" => demux.pairs[Len(demux.pairs)][1] = 13
  /\ pc = "demux" => demux.pairs = PairsOfFrames(Len(demux.chunks))
  /\ pc = "decoded" =>
       /\ Len(demux.chunks) = Len(etf_trace.buf) \div 16
       /\ demux.pairs = PairsOfFrames(Len(demux.chunks))

\* A whole buffer has been demultiplexed in which a byte tagged 5 was
\* followed by a byte tagged 0 and that by a byte tagged 13 in a later frame.
C13_WarnedThenWritten ==
  /\ pc = "decoded"
  /\ Len(demux.chunks) = 3
  /\ \E i, j, k \in 1..Len(demux.pairs) :
       /\ i < j /\ j < k
       /\ demux.pairs[i][1] = 5
       /\ demux.pairs[j][1] = 0
       /\ demux.pairs[k][1] = 13
  /\ Len(demux.warned) > 0
  /\ Len(demux.itm_trace) > 4

\* C14: the frames are the consecutive 16-byte pieces of the buffer, in
\* order; the first is parsed with tag 0 and every later one with the tag
\* the frame before it reported once all its pairs had been iterated.
C14_TagCarriedAcrossFrames ==
  /\ Len(demux.given) = Len(demux.chunks)
  /\ Len(demux.reported) =
       (IF outcome = "io_error" THEN Len(demux.chunks) - 1
                                ELSE Len(demux.chunks))
  /\ \A k \in 1..Len(demux.chunks) :
       /\ demux.chunks[k] = SubSeq(etf_trace.buf, 16 * (k - 1) + 1, 16 * k)
       /\ demux.given[k] = (IF k = 1 THEN 0 ELSE demux.reported[k - 1])
  /\ \A k \in 1..Len(demux.reported) :
       demux.reported[k] = Frame(demux.chunks[k], demux.given[k]).id
  /\ demux.id = (IF demux.reported = <<>> THEN 0
                 ELSE demux.reported[Len(demux.reported)])
  /\ pc = "demux" => etf_trace.pos = 16 * Len(demux.chunks)

\* Three frames have been parsed, the second with tag 5 and the third with
\* tag 13, the tags the frames before them ended with.
C14_TagsCarried ==
  /\ pc = "decoded"
  /\ demux.given = <<0, 5, 13>>
  /\ demux.reported[1] = 5 /\ demux.reported[2] = 13

---------------------------------------------------------------------------
(* The transport operations of each operation, under OpSpec. *)

\* The reads ("r") and writes ("w") an operation is to issue, in order.
C15_Footprint(op) ==
  CASE op \in {"enable_capture", "disable_capture"} -> <<<<"w", 32>>>>
    [] op = "read" -> <<<<"r", 16>>>>
    [] op = "fill_level" -> <<<<"r", 48>>>>
    [] op = "fifo_size" -> <<<<"r", 4>>>>
    [] op \in {"full", "empty", "ready", "triggered"} -> <<<<"r", 12>>>>
    [] op = "set_mode" -> <<<<"r", 40>>, <<"w", 40>>>>
    [] op \in {"stop_on_flush", "manual_flush"} ->
         <<<<"r", 772>>, <<"w", 772>>>>
    [] OTHER -> <<>>

\* C15: the transport operations an operation has issued are the first of
\* its footprint, and all of it once the operation has returned Ok: one
\* write of 0x20 for enable / disable, one read of 0x10 for read, of 0x30
\* for fill_level, of 0x04 for fifo_size, of 0x0C for the Status polls, one
\* read then one write of 0x28 for set_mode and of 0x304 for stop_on_flush
\* and manual_flush; nothing else.
C15_RegisterFootprint ==
  LET issued == [i \in 1..Len(ops) |-> <<ops[i].kind, ops[i].addr>>]
  IN  /\ IsPrefix(issued, C15_Footprint(call.op))
      /\ (call.step = 0 /\ ret.st = "ok") => issued = C15_Footprint(call.op)
      /\ \A i \in 1..Len(ops) : ops[i].op = call.op

\* fill_level has returned Ok after one read of 0x30.
C15_FillLevelRead ==
  /\ ReturnedOk("fill_level")
  /\ Len(ops) = 1 /\ ops[1].kind = "r" /\ ops[1].addr = 48
  /\ mem[4].lo # mem[48].lo

====
